---- MODULE Spec2Model ----
(***************************************************************************)
(* Personal Finance Tracker (src/Pandas_Ver.py): the ledger `df`, the      *)
(* persisted file transactions.csv, the table widget and the handlers      *)
(* add_entry, edit_entry / save_changes, delete_entry, export_csv,         *)
(* import_csv, filter_sort, update_dashboard and the start-up load.        *)
(*                                                                         *)
(* Text is a sequence of one-character strings, so that the code's string  *)
(* operations (strip, replace, title, isdigit, the category pattern,       *)
(* float(), comparison of date strings) are computed character by          *)
(* character.  The currency glyph is the single character Peso.  Amounts   *)
(* are floats modelled in hundredths: [nan |-> FALSE, val |-> hundredths], *)
(* or the float NaN.  A missing text value (pandas NaN in an object        *)
(* column) is NaNText.                                                     *)
(***************************************************************************)
EXTENDS Integers, Sequences, FiniteSets, TLC

(***************************************************************************)
(* Characters                                                              *)
(***************************************************************************)
UpperChars == <<"A","B","C","D","E","F","G","H","I","J","K","L","M",
                "N","O","P","Q","R","S","T","U","V","W","X","Y","Z">>
LowerChars == <<"a","b","c","d","e","f","g","h","i","j","k","l","m",
                "n","o","p","q","r","s","t","u","v","w","x","y","z">>
DigitChars == <<"0","1","2","3","4","5","6","7","8","9">>
Peso == "peso"

\* Code-point order of the characters the model uses (Python compares
\* strings by code point); Peso (U+20B1) is above every ASCII character.
CodeOrder == <<" ", "$", "+", ",", "-", ".", "/">> \o DigitChars
             \o UpperChars \o LowerChars \o <<Peso>>
Chars == {CodeOrder[i] : i \in 1..Len(CodeOrder)}

IndexIn(seq, c) ==
  IF \E i \in 1..Len(seq) : seq[i] = c
  THEN CHOOSE i \in 1..Len(seq) : seq[i] = c
  ELSE 0

\* Per-character tables: the position of a character among the upper-case
\* letters, the lower-case letters, the digits and in code-point order
\* (0 when it is not one of them).
UpperIndex == [c \in Chars |-> IndexIn(UpperChars, c)]
LowerIndex == [c \in Chars |-> IndexIn(LowerChars, c)]
DigitIndex == [c \in Chars |-> IndexIn(DigitChars, c)]
CodePoint == [c \in Chars |-> IndexIn(CodeOrder, c)]

IsUpper(c) == UpperIndex[c] > 0
IsLower(c) == LowerIndex[c] > 0
IsLetter(c) == IsUpper(c) \/ IsLower(c)
IsDigitChar(c) == DigitIndex[c] > 0
IsSpaceChar(c) == c = " "
DigitVal(c) == DigitIndex[c] - 1
ToLowerChar(c) == IF IsUpper(c) THEN LowerChars[UpperIndex[c]] ELSE c
ToUpperChar(c) == IF IsLower(c) THEN UpperChars[LowerIndex[c]] ELSE c

(***************************************************************************)
(* Python string operations                                                *)
(***************************************************************************)
\* str.strip()
RECURSIVE LStrip(_)
LStrip(s) == IF s # <<>> /\ IsSpaceChar(Head(s)) THEN LStrip(Tail(s)) ELSE s
RECURSIVE RStrip(_)
RStrip(s) ==
  IF s # <<>> /\ IsSpaceChar(s[Len(s)])
  THEN RStrip(SubSeq(s, 1, Len(s) - 1)) ELSE s
Strip(s) == RStrip(LStrip(s))

\* str.replace(c, "") for a one-character c
RemoveChar(s, c) == SelectSeq(s, LAMBDA x : x # c)

\* str.lower()
StrLower(s) == [i \in 1..Len(s) |-> ToLowerChar(s[i])]

\* str.title(): the first letter of every run of letters in upper case,
\* the other letters in lower case.
StrTitle(s) ==
  [i \in 1..Len(s) |->
     IF IsLetter(s[i])
     THEN IF i = 1 \/ ~IsLetter(s[i - 1])
          THEN ToUpperChar(s[i]) ELSE ToLowerChar(s[i])
     ELSE s[i]]

\* str.isdigit()
StrIsDigit(s) == s # <<>> /\ \A i \in 1..Len(s) : IsDigitChar(s[i])

\* needle in haystack
Contains(hay, needle) ==
  \E i \in 0..(Len(hay) - Len(needle)) :
     SubSeq(hay, i + 1, i + Len(needle)) = needle

\* re.search(pattern, hay) for a pattern of literal characters and ".",
\* which stands for any one character (the other special characters of
\* regular expressions are not among the model's search texts)
RegexSearch(hay, pattern) ==
  \E i \in 0..(Len(hay) - Len(pattern)) :
     \A j \in 1..Len(pattern) : pattern[j] = "." \/ hay[i + j] = pattern[j]

\* s < t for Python strings
RECURSIVE StrLess(_, _)
StrLess(s, t) ==
  IF t = <<>> THEN FALSE
  ELSE IF s = <<>> THEN TRUE
  ELSE IF Head(s) = Head(t) THEN StrLess(Tail(s), Tail(t))
  ELSE CodePoint[Head(s)] < CodePoint[Head(t)]

\* re.match(r"^[A-Za-z0-9\s\-]+$", s)
CategoryPatternMatch(s) ==
  /\ s # <<>>
  /\ \A i \in 1..Len(s) :
       IsLetter(s[i]) \/ IsDigitChar(s[i]) \/ IsSpaceChar(s[i]) \/ s[i] = "-"

(***************************************************************************)
(* Floats (amounts), in hundredths                                         *)
(***************************************************************************)
NaNFloat == [nan |-> TRUE, val |-> 0]
Num(h) == [nan |-> FALSE, val |-> h]

RECURSIVE DigitsValue(_)
DigitsValue(s) ==
  IF s = <<>> THEN 0
  ELSE 10 * DigitsValue(SubSeq(s, 1, Len(s) - 1)) + DigitVal(s[Len(s)])

AllDigits(s) == \A i \in 1..Len(s) : IsDigitChar(s[i])

\* The hundredths a digit string after the decimal point stands for
\* (the model's inputs have at most two decimals).
FractionValue(s) ==
  IF s = <<>> THEN 0
  ELSE IF Len(s) = 1 THEN 10 * DigitVal(s[1])
  ELSE 10 * DigitVal(s[1]) + DigitVal(s[2])

\* An unsigned decimal numeral: digits, digits "." [digits], or "." digits.
IsDecimal(s) ==
  LET p == IndexIn(s, ".") IN
  IF p = 0 THEN s # <<>> /\ AllDigits(s)
  ELSE LET ip == SubSeq(s, 1, p - 1)
           fp == SubSeq(s, p + 1, Len(s))
       IN  AllDigits(ip) /\ AllDigits(fp) /\ (ip # <<>> \/ fp # <<>>)

DecimalValue(s) ==
  LET p == IndexIn(s, ".") IN
  IF p = 0 THEN 100 * DigitsValue(s)
  ELSE 100 * DigitsValue(SubSeq(s, 1, p - 1))
       + FractionValue(SubSeq(s, p + 1, Len(s)))

\* float(s): surrounding whitespace ignored, an optional sign, a decimal
\* numeral or "nan" in any case; anything else raises ValueError
\* (ok = FALSE).  Exponents, "inf" and digit-group underscores are not
\* among the model's inputs.
ParseFloat(s) ==
  LET t == Strip(s)
      signed == t # <<>> /\ Head(t) \in {"+", "-"}
      body == IF signed THEN Tail(t) ELSE t
      neg == signed /\ Head(t) = "-"
  IN  IF StrLower(body) = <<"n", "a", "n">>
      THEN [ok |-> TRUE, f |-> NaNFloat]
      ELSE IF IsDecimal(body)
      THEN [ok |-> TRUE,
            f |-> Num(IF neg THEN 0 - DecimalValue(body) ELSE DecimalValue(body))]
      ELSE [ok |-> FALSE, f |-> NaNFloat]

RECURSIVE NatToStr(_)
NatToStr(n) ==
  IF n < 10 THEN <<DigitChars[n + 1]>>
  ELSE NatToStr(n \div 10) \o <<DigitChars[(n % 10) + 1]>>

Abs(n) == IF n < 0 THEN 0 - n ELSE n
SignStr(n) == IF n < 0 THEN <<"-">> ELSE <<>>
TwoDigits(n) == <<DigitChars[(n \div 10) + 1], DigitChars[(n % 10) + 1]>>

\* repr(float), as to_csv and astype(str) write a float: "5.0", "12.5", "0.05"
FloatRepr(f) ==
  IF f.nan THEN <<"n", "a", "n">>
  ELSE LET a == Abs(f.val)
           fr == a % 100
       IN  SignStr(f.val) \o NatToStr(a \div 100) \o <<".">> \o
           (IF fr % 10 = 0 THEN <<DigitChars[(fr \div 10) + 1]>>
            ELSE TwoDigits(fr))

RECURSIVE WithCommas(_)
WithCommas(n) ==
  IF n < 1000 THEN NatToStr(n)
  ELSE WithCommas(n \div 1000) \o <<",">> \o
       <<DigitChars[((n % 1000) \div 100) + 1]>> \o TwoDigits(n % 100)

\* f"{amount:,.2f}"
FormatAmount(f) ==
  IF f.nan THEN <<"n", "a", "n">>
  ELSE LET a == Abs(f.val) IN
       SignStr(f.val) \o WithCommas(a \div 100) \o <<".">> \o TwoDigits(a % 100)

\* amount <= 0 (every comparison with NaN is False)
FloatLeqZero(f) == ~f.nan /\ f.val <= 0
FloatGtZero(f) == ~f.nan /\ f.val > 0

\* raw.replace("₱", "").replace(",", "").strip()
CleanAmount(raw) == Strip(RemoveChar(RemoveChar(raw, Peso), ","))

(***************************************************************************)
(* Dates                                                                   *)
(***************************************************************************)
MonthAbbr == << <<"J","a","n">>, <<"F","e","b">>, <<"M","a","r">>,
                <<"A","p","r">>, <<"M","a","y">>, <<"J","u","n">>,
                <<"J","u","l">>, <<"A","u","g">>, <<"S","e","p">>,
                <<"O","c","t">>, <<"N","o","v">>, <<"D","e","c">> >>

NaT == [nat |-> TRUE, y |-> 0, m |-> 0, d |-> 0]

IsLeap(y) == (y % 4 = 0 /\ y % 100 # 0) \/ y % 400 = 0
DaysInMonth(y, m) ==
  IF m = 2 THEN (IF IsLeap(y) THEN 29 ELSE 28)
  ELSE IF m \in {4, 6, 9, 11} THEN 30 ELSE 31

MakeDate(y, m, d) ==
  IF m \in 1..12 /\ y >= 1 /\ d >= 1 /\ d <= DaysInMonth(y, m)
  THEN [nat |-> FALSE, y |-> y, m |-> m, d |-> d]
  ELSE NaT

\* pd.to_datetime(x, errors="coerce") on one value, for the two layouts the
\* model's data uses: "dd Mon yyyy" (what the program writes) and the ISO
\* layout "yyyy-mm-dd"; a missing value and any other text give NaT.
ParseDate(x) ==
  IF Len(x) = 11 /\ x[3] = " " /\ x[7] = " "
     /\ AllDigits(SubSeq(x, 1, 2)) /\ AllDigits(SubSeq(x, 8, 11))
  THEN MakeDate(DigitsValue(SubSeq(x, 8, 11)),
                IndexIn(MonthAbbr, StrTitle(SubSeq(x, 4, 6))),
                DigitsValue(SubSeq(x, 1, 2)))
  ELSE IF Len(x) = 10 /\ x[5] = "-" /\ x[8] = "-"
     /\ AllDigits(SubSeq(x, 1, 4)) /\ AllDigits(SubSeq(x, 6, 7))
     /\ AllDigits(SubSeq(x, 9, 10))
  THEN MakeDate(DigitsValue(SubSeq(x, 1, 4)), DigitsValue(SubSeq(x, 6, 7)),
                DigitsValue(SubSeq(x, 9, 10)))
  ELSE NaT

\* Calendar day a is on or before calendar day b
OnOrBefore(a, b) ==
  \/ a.y < b.y
  \/ a.y = b.y /\ a.m < b.m
  \/ a.y = b.y /\ a.m = b.m /\ a.d <= b.d

\* d.strftime("%d %b %Y")
StrfDate(d) ==
  TwoDigits(d.d) \o <<" ">> \o MonthAbbr[d.m] \o <<" ">> \o
  TwoDigits(d.y \div 100) \o TwoDigits(d.y % 100)

(***************************************************************************)
(* Missing values and CSV cells                                            *)
(***************************************************************************)
NaNText == <<"<NaN>">>

\* The cell texts read_csv takes for a missing value (its default na_values
\* that the model's characters can spell).
NaValues ==
  { <<>>, <<"N","A">>, <<"N","/","A">>, <<"n","/","a">>, <<"N","a","N">>,
    <<"n","a","n">>, <<"-","N","a","N">>, <<"-","n","a","n">>,
    <<"N","U","L","L">>, <<"n","u","l","l">>, <<"N","o","n","e">> }

\* to_csv: a missing value is written as the empty cell
WriteTextCell(v) == IF v = NaNText THEN <<>> ELSE v
WriteFloatCell(f) == IF f.nan THEN <<>> ELSE FloatRepr(f)

\* read_csv: a text cell
ReadTextCell(c) == IF c \in NaValues THEN NaNText ELSE c

\* str(value) of a text column's value, as the table widget shows it
ShownText(v) == IF v = NaNText THEN <<"n", "a", "n">> ELSE v

(***************************************************************************)
(* Program constants and the sample texts the inputs are drawn from        *)
(***************************************************************************)
Income == <<"I", "n", "c", "o", "m", "e">>
Expense == <<"E", "x", "p", "e", "n", "s", "e">>
ColDate == <<"D", "a", "t", "e">>
ColType == <<"T", "y", "p", "e">>
ColCategory == <<"C", "a", "t", "e", "g", "o", "r", "y">>
ColAmount == <<"A", "m", "o", "u", "n", "t">>
ColNotes == <<"N", "o", "t", "e", "s">>
COLUMNS == <<ColDate, ColType, ColCategory, ColAmount, ColNotes>>

Empty == <<>>
CatFood == <<"F", "o", "o", "d">>
CatBills == <<"B", "i", "l", "l", "s">>
CatGifts == <<"G", "i", "f", "t", "s", " ", "/", " ",
              "D", "o", "n", "a", "t", "i", "o", "n", "s">>
CatDigits == <<"1", "2", "3">>
CatSymbol == <<"a", "$">>
AmtWord == <<"a", "b", "c">>
AmtZero == <<"0">>
AmtNegative == <<"-", "5">>
AmtPeso == <<Peso, "1", ",", "2", "5", "0">>
AmtPadded == <<" ", "2", "0", " ">>
AmtNaN == <<"n", "a", "n">>
AmtPlain == <<"7", ".", "5">>
NoteLunch == <<"l", "u", "n", "c", "h">>
NotePadded == <<" ", "l", "u", "n", "c", "h", " ">>
DayFeb == <<"2", "8", " ", "F", "e", "b", " ", "2", "0", "2", "6">>
DayMar == <<"0", "1", " ", "M", "a", "r", " ", "2", "0", "2", "6">>
IsoJan == <<"2", "0", "2", "6", "-", "0", "1", "-", "1", "5">>
NotADate == <<"s", "o", "o", "n">>
TypeLower == <<"i", "n", "c", "o", "m", "e">>
TypeUpper == <<"E", "X", "P", "E", "N", "S", "E">>
TypeOther == <<"T", "r", "a", "n", "s", "f", "e", "r">>
HdrDateLower == <<" ", "d", "a", "t", "e">>
HdrAmountUpper == <<"A", "M", "O", "U", "N", "T">>

\* The ledger holds at most MaxRows rows.
MaxRows == 2

(***************************************************************************)
(* State                                                                   *)
(***************************************************************************)
VARIABLES
  df,        \* the ledger's rows, in order
  index,     \* the ledger's index labels, one per row (df.index)
  file,      \* transactions.csv: [bad, header, rows of cells]
  treeview,  \* the table widget: a sequence of [iid, values]
  focus,     \* treeview.focus(): <<>> or <<iid>>
  popup,     \* the edit popup: <<>> when closed, <<cur_item>> when open
  exported,  \* the file written by the last export: <<>> or <<file>>
  today,     \* the day of the last add_entry: <<>> before the first
  month_var, \* the month chosen in the Statistics tab
  dashboard, \* what update_dashboard last drew: the chart and the labels
  last,      \* the last operation on the ledger, its inputs and its outcome
  pre        \* the ledger and the file as they were before that operation

vars ==
  <<df, index, file, treeview, focus, popup, exported, today, month_var,
    dashboard, last, pre>>

Row(date, type, category, amount, notes) ==
  [Date |-> date, Type |-> type, Category |-> category,
   Amount |-> amount, Notes |-> notes]

CsvFile(header, rows) == [bad |-> FALSE, header |-> header, rows |-> rows]
Unparseable == [bad |-> TRUE, header |-> <<>>, rows |-> <<>>]

\* df.to_csv(path, index=False)
ToCsv(d) ==
  CsvFile(COLUMNS,
          [i \in 1..Len(d) |->
             <<WriteTextCell(d[i].Date), WriteTextCell(d[i].Type),
               WriteTextCell(d[i].Category), WriteFloatCell(d[i].Amount),
               WriteTextCell(d[i].Notes)>>])

\* save_data()
SaveData(d) == ToCsv(d)

\* read_csv of an Amount cell the program wrote, then astype(float)
ReadFloatCell(c) == IF c \in NaValues THEN NaNFloat ELSE ParseFloat(c).f

\* pd.read_csv(CSV_FILE); df["Amount"] = df["Amount"].astype(float)
LoadCsv(f) ==
  [i \in 1..Len(f.rows) |->
     Row(ReadTextCell(f.rows[i][1]), ReadTextCell(f.rows[i][2]),
         ReadTextCell(f.rows[i][3]), ReadFloatCell(f.rows[i][4]),
         ReadTextCell(f.rows[i][5]))]

\* format_date(raw_date)
FormatDate(raw) ==
  LET d == ParseDate(raw) IN IF d.nat THEN ShownText(raw) ELSE StrfDate(d)

\* The values tuple both refresh_treeview and filter_sort show for a row
RowValues(row) ==
  <<FormatDate(row.Date), ShownText(row.Type), ShownText(row.Category),
    <<Peso>> \o FormatAmount(row.Amount), ShownText(row.Notes)>>

\* The index a frame gets from concat(ignore_index=True), from
\* reset_index(drop=True) and from read_csv: 0, 1, ..., n-1
RangeIndex(n) == [k \in 1..n |-> k - 1]

\* The position (from 1) of the row labelled i
PosOf(ix, i) == CHOOSE k \in 1..Len(ix) : ix[k] = i

\* The table item for the row at position k: treeview.insert(iid=i, ...)
\* with i the row's index label
Item(d, ix, k) == [iid |-> ix[k], values |-> RowValues(d[k])]

\* refresh_treeview(): every row of df, in order
RefreshTreeview(d, ix) == [k \in 1..Len(d) |-> Item(d, ix, k)]

\* The record of an operation: its inputs, the focus item it acted on with
\* the values the table showed for it, that item's place in the table (pos)
\* and the number of items the table showed (visible); for filter_sort the
\* search text and the sort direction.
NoOp ==
  [op |-> "init", outcome |-> "ok", now |-> <<>>, type |-> <<>>,
   category |-> <<>>, amount |-> <<>>, notes |-> <<>>, item |-> <<>>,
   shown |-> <<>>, pos |-> 0, visible |-> 0, src |-> <<>>,
   search |-> <<>>, sort |-> ""]

Snapshot == [df |-> df, file |-> file]

(***************************************************************************)
(* update_dashboard                                                        *)
(***************************************************************************)
AllMonths == "All Months"
\* strftime("%B") of the twelve months: the choices after "All Months"
MonthNames ==
  <<"January", "February", "March", "April", "May", "June", "July",
    "August", "September", "October", "November", "December">>

\* The positions of the rows of the chosen month:
\* pd.to_datetime(df["Date"], errors="coerce").dt.month == month_num
MonthRows(d, month) ==
  {k \in 1..Len(d) :
     \/ month = AllMonths
     \/ LET t == ParseDate(d[k].Date) IN
        ~t.nat /\ t.m = IndexIn(MonthNames, month)}

\* Among positions K, the rows with df["Type"].str.lower() == type_lower
TypeRows(d, K, type_lower) ==
  {k \in K : d[k].Type # NaNText /\ StrLower(d[k].Type) = type_lower}

\* ["Amount"].sum() over the rows at positions K, in hundredths: missing
\* amounts are skipped and the sum of no rows is 0
RECURSIVE SumAmounts(_, _)
SumAmounts(d, K) ==
  IF K = {} THEN 0
  ELSE LET k == CHOOSE x \in K : TRUE IN
       (IF d[k].Amount.nan THEN 0 ELSE d[k].Amount.val)
       + SumAmounts(d, K \ {k})

\* expenses.groupby("Category")["Amount"].sum(): one total per category;
\* groupby leaves out the rows whose category is missing
GroupByCategory(d, K) ==
  {[category |-> c,
    total |-> SumAmounts(d, {k \in K : d[k].Category = c})] :
     c \in {d[k].Category : k \in K} \ {NaNText}}

\* n / m rounded to the nearest integer (m > 0), as "%.1f" rounds the
\* tenths of the percentage
RoundDiv(n, m) == (2 * n + m) \div (2 * m)

\* update_dashboard(): the chart (its wedges are the positive category
\* totals), the three totals of the labels, the progress bar and the
\* percentage label.
UpdateDashboard(d, month) ==
  LET df_filtered == MonthRows(d, month)
      expenses == TypeRows(d, df_filtered, <<"e", "x", "p", "e", "n", "s", "e">>)
      total_expenses == SumAmounts(d, expenses)
      cat_totals == {g \in GroupByCategory(d, expenses) : g.total > 0}
      income == TypeRows(d, df_filtered, <<"i", "n", "c", "o", "m", "e">>)
      total_income == SumAmounts(d, income)
      remaining == total_income - total_expenses
      has_pct == total_income > 0
  IN  [chart |-> IF expenses # {} /\ total_expenses > 0
                 THEN (IF cat_totals # {} THEN "pie" ELSE "nocategories")
                 ELSE "noexpenses",
       wedges |-> IF expenses # {} /\ total_expenses > 0
                  THEN cat_totals ELSE {},
       income |-> total_income,
       spent |-> total_expenses,
       remaining |-> remaining,
       \* percentage = total_expenses / total_income * 100, as a fraction
       pct_num |-> IF has_pct THEN 100 * total_expenses ELSE 0,
       pct_den |-> IF has_pct THEN total_income ELSE 1,
       \* budget_progress['value'] = min(percentage, 100), as a fraction
       bar_num |-> IF has_pct /\ total_expenses < total_income
                   THEN 100 * total_expenses
                   ELSE IF has_pct THEN 100 ELSE 0,
       bar_den |-> IF has_pct /\ total_expenses < total_income
                   THEN total_income ELSE 1,
       \* budget_percent_label: which text, and the tenths of percent in it
       percent_label |-> IF total_income = 0 THEN "noincome"
                         ELSE IF remaining < 0 THEN "overbudget"
                         ELSE "used",
       percent_tenths |-> IF has_pct
                          THEN RoundDiv(1000 * total_expenses, total_income)
                          ELSE 0]

\* Module start-up with no transactions.csv: an empty ledger, written out.
Init ==
  /\ df = <<>>
  /\ index = RangeIndex(0)
  /\ file = ToCsv(<<>>)
  /\ treeview = RefreshTreeview(<<>>, <<>>)
  /\ focus = <<>>
  /\ popup = <<>>
  /\ exported = <<>>
  /\ today = <<>>
  /\ month_var = AllMonths
  /\ dashboard = UpdateDashboard(<<>>, AllMonths)
  /\ last = NoOp
  /\ pre = [df |-> <<>>, file |-> ToCsv(<<>>)]

(***************************************************************************)
(* add_entry                                                               *)
(***************************************************************************)
\* The validations of add_entry, in the code's order, on the stripped inputs
AddOutcome(type_value, category_value, amount_raw) ==
  IF type_value = <<>> \/ category_value = <<>> \/ amount_raw = <<>>
  THEN "missing"
  ELSE IF type_value \notin {Income, Expense} THEN "badtype"
  ELSE LET parsed == ParseFloat(CleanAmount(amount_raw)) IN
       IF ~parsed.ok THEN "notnumeric"
       ELSE IF FloatLeqZero(parsed.f) THEN "notpositive"
       ELSE IF ~CategoryPatternMatch(category_value) THEN "badcategory"
       ELSE IF StrIsDigit(category_value) THEN "onlydigits"
       ELSE "ok"

\* The row add_entry appends
AddRow(now, type_value, category_value, amount_raw, notes_value) ==
  Row(now, type_value, category_value,
      ParseFloat(CleanAmount(amount_raw)).f, notes_value)

\* What the user has put in the four input fields
Form(type, category, amount, notes) ==
  [type |-> type, category |-> category, amount |-> amount, notes |-> notes]

\* The user fills the form as one of Forms and presses Add Entry on one of
\* Days, which is not before the day of the add before it.
AddEntry(Days, Forms) ==
  /\ popup = <<>>
  /\ \E now \in Days, form \in Forms :
       LET type_value == Strip(form.type)
           category_value == Strip(form.category)
           amount_raw == Strip(form.amount)
           notes_value == Strip(form.notes)
           outcome == AddOutcome(type_value, category_value, amount_raw)
       IN  /\ today = <<>> \/ OnOrBefore(ParseDate(today), ParseDate(now))
           /\ today' = now
           /\ last' = [NoOp EXCEPT !.op = "add", !.outcome = outcome,
                         !.now = now, !.type = form.type,
                         !.category = form.category,
                         !.amount = form.amount, !.notes = form.notes]
           /\ pre' = Snapshot
           /\ IF outcome = "ok"
              THEN /\ Len(df) < MaxRows
                   /\ df' = Append(df, AddRow(now, type_value, category_value,
                                              amount_raw, notes_value))
                   /\ index' = RangeIndex(Len(df'))
                   /\ file' = SaveData(df')
                   /\ treeview' = RefreshTreeview(df', index')
                   /\ focus' = <<>>
                   /\ dashboard' = UpdateDashboard(df', month_var)
              ELSE UNCHANGED <<df, index, file, treeview, focus, dashboard>>
           /\ UNCHANGED <<popup, exported, month_var>>

(***************************************************************************)
(* Restart: the module's start-up load of transactions.csv                 *)
(***************************************************************************)
Restart ==
  /\ df' = LoadCsv(file)
  /\ index' = RangeIndex(Len(df'))
  /\ treeview' = RefreshTreeview(df', index')
  /\ focus' = <<>>
  /\ popup' = <<>>
  /\ last' = [NoOp EXCEPT !.op = "restart"]
  /\ pre' = Snapshot
  /\ month_var' = AllMonths
  /\ dashboard' = UpdateDashboard(df', AllMonths)
  /\ UNCHANGED <<file, exported, today>>

(***************************************************************************)
(* The table: selecting a row, filter_sort                                 *)
(***************************************************************************)
Range(q) == {q[i] : i \in 1..Len(q)}
ItemIds == {treeview[k].iid : k \in 1..Len(treeview)}
TablePos(iid) == CHOOSE k \in 1..Len(treeview) : treeview[k].iid = iid
ShownValues(iid) == treeview[TablePos(iid)].values

\* The user clicks a row of the table: it becomes the focus item.
Select ==
  /\ popup = <<>>
  /\ \E iid \in ItemIds : focus' = <<iid>>
  /\ UNCHANGED <<df, index, file, treeview, popup, exported, today, month_var,
                 dashboard, last, pre>>

\* series.str.lower().str.contains(search_text) on one value: the search
\* text is taken as a regular expression; a missing value matches nothing.
TextContains(v, search_text) ==
  v # NaNText /\ RegexSearch(StrLower(v), search_text)

\* The positions of the rows that filter_sort keeps
Filtered(d, search_text) ==
  {k \in 1..Len(d) :
     \/ search_text = <<>>
     \/ TextContains(d[k].Type, search_text)
     \/ TextContains(d[k].Category, search_text)
     \/ TextContains(d[k].Notes, search_text)}

\* sort_values(by="Date"): the Date column holds strings, compared as
\* strings; a missing date goes last in either direction.
DateInOrder(a, b, ascending) ==
  IF b = NaNText THEN TRUE
  ELSE IF a = NaNText THEN FALSE
  ELSE IF ascending THEN ~StrLess(b, a) ELSE ~StrLess(a, b)

\* Every order sort_values may give the kept rows (rows with equal dates
\* in any order: the default sort is not a stable one).
SortedOrders(d, keep, ascending) ==
  {p \in [1..Cardinality(keep) -> keep] :
     /\ \A a, b \in 1..Cardinality(keep) : a # b => p[a] # p[b]
     /\ \A a, b \in 1..Cardinality(keep) :
          a < b => DateInOrder(d[p[a]].Date, d[p[b]].Date, ascending)}

\* The .str accessor raises AttributeError on a column that is not a
\* column of strings.  read_csv gives such a column (float64) when every
\* cell of it is empty, and the column stays so until a string is put in
\* it; whether a column of missing values only is still float64 depends on
\* how the ledger came to be, so that filter_sort may raise on it.
MayRaise(d, search_text) ==
  /\ search_text # <<>>
  /\ d # <<>>
  /\ \/ \A k \in 1..Len(d) : d[k].Category = NaNText
     \/ \A k \in 1..Len(d) : d[k].Notes = NaNText

FilterSort(Searches, Orders) ==
  /\ popup = <<>>
  /\ \E search \in Searches, sort_var \in Orders :
       LET search_text == StrLower(Strip(search))
           keep == Filtered(df, search_text)
       IN  \/ \E p \in SortedOrders(df, keep, sort_var = "Ascending") :
                /\ treeview' =
                     [k \in 1..Cardinality(keep) |-> Item(df, index, p[k])]
                /\ focus' = <<>>
                /\ last' = [NoOp EXCEPT !.op = "filter", !.search = search,
                              !.sort = sort_var,
                              !.visible = Cardinality(keep)]
           \/ /\ MayRaise(df, search_text)
              /\ last' = [NoOp EXCEPT !.op = "filter",
                            !.outcome = "exception", !.search = search,
                            !.sort = sort_var]
              /\ UNCHANGED <<treeview, focus>>
  /\ pre' = Snapshot
  /\ UNCHANGED <<df, index, file, popup, exported, today, month_var, dashboard>>

(***************************************************************************)
(* edit_entry and its save_changes                                         *)
(***************************************************************************)
\* edit_entry with a row selected: the popup opens on cur_item.
EditOpen ==
  /\ popup = <<>>
  /\ focus # <<>>
  /\ popup' = focus
  /\ UNCHANGED <<df, index, file, treeview, focus, exported, today, month_var,
                 dashboard, last, pre>>

\* The popup is closed without saving.
ClosePopup ==
  /\ popup # <<>>
  /\ popup' = <<>>
  /\ UNCHANGED <<df, index, file, treeview, focus, exported, today, month_var,
                 dashboard, last, pre>>

\* The validation of save_changes
SaveOutcome(raw_amount) ==
  LET parsed == ParseFloat(CleanAmount(raw_amount)) IN
  IF ~parsed.ok THEN "notnumeric"
  ELSE IF FloatLeqZero(parsed.f) THEN "notpositive"
  ELSE "ok"

\* Mutant of EditRow: the row is taken by the item's place in the table
\* instead of by its iid.
EditRowByTablePosition(d, ix, cur_item, type, category, raw_amount, notes) ==
  [d EXCEPT ![TablePos(cur_item)] =
     [@ EXCEPT !.Type = type, !.Category = category,
               !.Amount = ParseFloat(CleanAmount(raw_amount)).f,
               !.Notes = notes]]

\* idx = int(cur_item); df.at[idx, ...] = ...
EditRow(d, ix, cur_item, type, category, raw_amount, notes) ==
  [d EXCEPT ![PosOf(ix, cur_item)] =
     [@ EXCEPT !.Type = type, !.Category = category,
               !.Amount = ParseFloat(CleanAmount(raw_amount)).f,
               !.Notes = notes]]

\* A field of the popup that the user leaves as the popup pre-filled it
Keep == <<"<keep>">>
Field(typed, prefilled) == IF typed = Keep THEN prefilled ELSE typed

\* The user overtypes the popup's fields as one of Forms (the fields start
\* as the values the table shows for cur_item) and presses Save Changes.
SaveChanges(Forms) ==
  /\ popup # <<>>
  /\ LET cur_item == popup[1]
         shown == ShownValues(cur_item)
     IN  \E form \in Forms :
           LET ty == Field(form.type, shown[2])
               cat == Field(form.category, shown[3])
               amt == Field(form.amount, shown[4])
               nt == Field(form.notes, shown[5])
               outcome == SaveOutcome(amt)
           IN
           /\ last' = [NoOp EXCEPT !.op = "save", !.outcome = outcome,
                         !.type = ty, !.category = cat, !.amount = amt,
                         !.notes = nt, !.item = popup, !.shown = shown,
                         !.pos = TablePos(cur_item),
                         !.visible = Len(treeview)]
           /\ pre' = Snapshot
           /\ IF outcome = "ok"
              THEN /\ df' = EditRow(df, index, cur_item, ty, cat, amt, nt)
                   /\ file' = SaveData(df')
                   /\ treeview' = RefreshTreeview(df', index)
                   /\ focus' = <<>>
                   /\ dashboard' = UpdateDashboard(df', month_var)
                   /\ popup' = <<>>
              ELSE UNCHANGED <<df, file, treeview, focus, dashboard, popup>>
           /\ UNCHANGED <<index, exported, today, month_var>>

(***************************************************************************)
(* delete_entry                                                            *)
(***************************************************************************)
\* A sequence without its element at position n
Without(q, n) == [k \in 1..(Len(q) - 1) |-> IF k < n THEN q[k] ELSE q[k + 1]]

\* Mutant of DropRow: the row is taken by the item's place in the table
\* instead of by its iid.
DropRowByTablePosition(d, ix, cur_item) == Without(d, TablePos(cur_item))

\* df.drop(index=int(cur_item), inplace=True): the rows left
DropRow(d, ix, cur_item) == Without(d, PosOf(ix, cur_item))

\* df.reset_index(drop=True, inplace=True) after the drop: the labels left
\* are replaced by 0, 1, ..., n-1
ResetIndex(ix, cur_item) == RangeIndex(Len(ix) - 1)

DeleteEntry ==
  /\ popup = <<>>
  /\ pre' = Snapshot
  /\ IF focus = <<>>
     THEN /\ last' = [NoOp EXCEPT !.op = "delete", !.outcome = "noselection",
                        !.visible = Len(treeview)]
          /\ UNCHANGED <<df, index, file, treeview, focus, dashboard>>
     ELSE \E confirm \in BOOLEAN :
            /\ last' = [NoOp EXCEPT !.op = "delete",
                          !.outcome = IF confirm THEN "ok" ELSE "declined",
                          !.item = focus, !.shown = ShownValues(focus[1]),
                          !.pos = TablePos(focus[1]),
                          !.visible = Len(treeview)]
            /\ IF confirm
               THEN /\ df' = DropRow(df, index, focus[1])
                    /\ index' = ResetIndex(index, focus[1])
                    /\ file' = SaveData(df')
                    /\ treeview' = RefreshTreeview(df', index')
                    /\ focus' = <<>>
                    /\ dashboard' = UpdateDashboard(df', month_var)
               ELSE UNCHANGED <<df, index, file, treeview, focus, dashboard>>
  /\ UNCHANGED <<popup, exported, today, month_var>>

(***************************************************************************)
(* export_csv and import_csv                                               *)
(***************************************************************************)
ExportCsv ==
  /\ popup = <<>>
  /\ \E chosen \in BOOLEAN :
       /\ exported' = IF chosen THEN <<ToCsv(df)>> ELSE exported
       /\ last' = [NoOp EXCEPT !.op = "export",
                     !.outcome = IF chosen THEN "ok" ELSE "cancelled"]
  /\ pre' = Snapshot
  /\ UNCHANGED <<df, index, file, treeview, focus, popup, today, month_var,
                 dashboard>>

\* imported_df.columns.str.strip().str.title()
NormHeader(f) == [i \in 1..Len(f.header) |-> StrTitle(Strip(f.header[i]))]
Cell(f, r, col) == f.rows[r][IndexIn(NormHeader(f), col)]

\* .astype(str).str.replace("₱", "").str.replace(",", "").str.strip()
\* .astype(float) on one cell of the Amount column as read_csv read it
AmountCellOk(c) == c \in NaValues \/ ParseFloat(CleanAmount(c)).ok
ImportAmount(c) ==
  IF c \in NaValues THEN NaNFloat ELSE ParseFloat(CleanAmount(c)).f

\* The .str accessor needs a column of strings: read_csv gives one unless
\* every cell of the column is a number or missing.
IsTextColumn(f, col) ==
  \/ f.rows = <<>>
  \/ \E r \in 1..Len(f.rows) :
       Cell(f, r, col) \notin NaValues /\ ~ParseFloat(Cell(f, r, col)).ok

\* imported_df["Type"].str.title()
ImportType(c) == IF c \in NaValues THEN NaNText ELSE StrTitle(c)

ImportOutcome(f) ==
  IF f.bad THEN "exception"
  ELSE IF \E i \in 1..Len(COLUMNS) : IndexIn(NormHeader(f), COLUMNS[i]) = 0
  THEN "missingcolumn"
  ELSE IF \E r \in 1..Len(f.rows) : ~AmountCellOk(Cell(f, r, ColAmount))
  THEN "exception"
  ELSE IF ~IsTextColumn(f, ColType) THEN "exception"
  ELSE "ok"

\* Mutant of RowAccepted: the type is compared as the file spells it
\* (the .str.title() step left out).
RowAcceptedExactCase(f, r) ==
  /\ ReadTextCell(Cell(f, r, ColType)) \in {Income, Expense}
  /\ ~ParseDate(ReadTextCell(Cell(f, r, ColDate))).nat

\* isin(["Income", "Expense"]), then to_datetime(errors="coerce") and
\* dropna(subset=["Date"])
RowAccepted(f, r) ==
  /\ ImportType(Cell(f, r, ColType)) \in {Income, Expense}
  /\ ~ParseDate(ReadTextCell(Cell(f, r, ColDate))).nat

ImportRow(f, r) ==
  Row(StrfDate(ParseDate(ReadTextCell(Cell(f, r, ColDate)))),
      ImportType(Cell(f, r, ColType)),
      ReadTextCell(Cell(f, r, ColCategory)),
      ImportAmount(Cell(f, r, ColAmount)),
      ReadTextCell(Cell(f, r, ColNotes)))

\* The rows of the first n lines of the file that the import keeps
RECURSIVE ImportedRows(_, _)
ImportedRows(f, n) ==
  IF n = 0 THEN <<>>
  ELSE IF RowAccepted(f, n)
  THEN Append(ImportedRows(f, n - 1), ImportRow(f, n))
  ELSE ImportedRows(f, n - 1)

\* The rows before the first row whose amount cannot be converted
RECURSIVE RowsBeforeBadAmount(_, _)
RowsBeforeBadAmount(f, n) ==
  IF n = 0 THEN <<>>
  ELSE IF \E r \in 1..n : ~AmountCellOk(Cell(f, r, ColAmount))
  THEN RowsBeforeBadAmount(f, n - 1)
  ELSE ImportedRows(f, n)

\* Mutant of ImportInto: rows are converted and appended one at a time, so
\* that the rows before a bad amount are already in the ledger when the
\* conversion fails.
ImportRowByRow(d, f) ==
  IF f.bad \/ ImportOutcome(f) = "missingcolumn" THEN d
  ELSE d \o RowsBeforeBadAmount(f, Len(f.rows))

\* The ledger after import_csv has read file f: the whole file is
\* converted before df = pd.concat([df, imported_df], ignore_index=True),
\* and df is not assigned when a step before it returns or raises.
ImportInto(d, f) ==
  IF ImportOutcome(f) = "ok" THEN d \o ImportedRows(f, Len(f.rows)) ELSE d

ImportCsv(Files) ==
  /\ popup = <<>>
  /\ pre' = Snapshot
  /\ \/ /\ last' = [NoOp EXCEPT !.op = "import", !.outcome = "cancelled"]
        /\ UNCHANGED <<df, index, file, treeview, focus, dashboard>>
     \/ \E f \in Files \cup Range(exported) :
          LET outcome == ImportOutcome(f) IN
          /\ last' = [NoOp EXCEPT !.op = "import", !.outcome = outcome,
                        !.src = <<f>>]
          /\ Len(ImportInto(df, f)) <= MaxRows
          /\ df' = ImportInto(df, f)
          /\ IF outcome = "ok"
             THEN /\ index' = RangeIndex(Len(df'))
                  /\ file' = SaveData(df')
                  /\ treeview' = RefreshTreeview(df', index')
                  /\ focus' = <<>>
                  /\ dashboard' = UpdateDashboard(df', month_var)
             ELSE UNCHANGED <<index, file, treeview, focus, dashboard>>
  /\ UNCHANGED <<popup, exported, today, month_var>>

(***************************************************************************)
(* The month chooser of the Statistics tab                                 *)
(***************************************************************************)
\* The user picks a month: <<ComboboxSelected>> runs update_dashboard().
SelectMonth(Months) ==
  /\ popup = <<>>
  /\ \E month \in Months :
       /\ month_var' = month
       /\ dashboard' = UpdateDashboard(df, month)
  /\ UNCHANGED <<df, index, file, treeview, focus, popup, exported, today,
                 last, pre>>

(***************************************************************************)
(* Sample files for import, and the specification                          *)
(***************************************************************************)
\* Header in other case and padding; one good row, one row of unknown
\* type, one row with an unparseable date.
FileMixed ==
  CsvFile(<<HdrDateLower, ColType, ColCategory, HdrAmountUpper, ColNotes>>,
          << <<IsoJan, TypeLower, CatFood, AmtPeso, NoteLunch>>,
             <<DayFeb, TypeOther, CatFood, AmtPlain, Empty>>,
             <<NotADate, TypeUpper, CatFood, AmtPlain, NoteLunch>> >>)
\* Columns in another order; a negative amount, a digits-only category
FileOdd ==
  CsvFile(<<ColType, ColDate, ColAmount, ColCategory, ColNotes>>,
          << <<TypeUpper, DayMar, AmtNegative, CatDigits, Empty>> >>)
\* The Notes column is missing
FileNoNotes ==
  CsvFile(<<ColDate, ColType, ColCategory, ColAmount>>,
          << <<DayFeb, Income, CatFood, AmtPlain>> >>)
\* A good row followed by a row whose amount is not a number
FileBadAmount ==
  CsvFile(COLUMNS,
          << <<DayFeb, Income, CatFood, AmtPlain, NoteLunch>>,
             <<DayFeb, Expense, CatFood, AmtWord, NoteLunch>> >>)

\* No row has a type
FileNoTypes ==
  CsvFile(COLUMNS, << <<DayFeb, Empty, CatFood, AmtPlain, NoteLunch>> >>)

\* An income row with a negative amount
FileRefund ==
  CsvFile(COLUMNS, << <<DayFeb, Income, CatBills, AmtNegative, NoteLunch>> >>)

SearchDot == <<".">>
SearchFood == <<"F", "O", "O", "D", " ">>

\* The ledger in use: adds on two days, edits, deletes, the table's views,
\* imports and restarts.
Next ==
  \/ AddEntry({DayFeb, DayMar},
              {Form(Expense, CatFood, AmtPeso, NotePadded),
               Form(Expense, CatFood, AmtZero, Empty)})
  \/ Select
  \/ FilterSort({Empty, SearchFood}, {"Ascending", "Descending"})
  \/ EditOpen
  \/ ClosePopup
  \/ SaveChanges({Form(Income, CatDigits, AmtPadded, Empty),
                  Form(Keep, CatSymbol, AmtWord, Keep),
                  Form(Keep, Keep, Keep, Keep)})
  \/ DeleteEntry
  \/ ImportCsv({FileOdd, FileNoNotes})
  \/ Restart

Spec == Init /\ [][Next]_vars

\* The two forms: every kind of amount, on the add path and on the edit
\* path, and reloads.
NextForms ==
  \/ AddEntry({DayFeb, DayMar},
              {Form(Expense, CatFood, AmtPeso, NotePadded),
               Form(Income, CatFood, AmtPadded, Empty),
               Form(Expense, CatFood, AmtWord, NoteLunch),
               Form(Expense, CatFood, AmtZero, NoteLunch),
               Form(Expense, CatFood, AmtNegative, NoteLunch),
               Form(Expense, CatFood, AmtNaN, NoteLunch),
               Form(Expense, CatFood, Empty, NoteLunch),
               Form(Empty, CatFood, AmtPeso, NoteLunch),
               Form(Expense, CatGifts, AmtPeso, NoteLunch)})
  \/ Select
  \/ EditOpen
  \/ ClosePopup
  \/ SaveChanges({Form(Keep, Keep, AmtWord, Keep),
                  Form(Keep, Keep, AmtZero, Keep),
                  Form(Keep, Keep, AmtNegative, Keep),
                  Form(Keep, Keep, AmtNaN, Keep),
                  Form(Keep, Keep, AmtPlain, Keep),
                  Form(Keep, Keep, Keep, Keep)})
  \/ Restart

SpecForms == Init /\ [][NextForms]_vars

\* The table: filtered and sorted views, selections, edits and deletes of
\* rows of different days and categories.
NextTable ==
  \/ AddEntry({DayFeb, DayMar},
              {Form(Expense, CatFood, AmtPeso, NoteLunch),
               Form(Income, CatBills, AmtPlain, Empty)})
  \/ Select
  \/ FilterSort({Empty, SearchFood}, {"Ascending", "Descending"})
  \/ EditOpen
  \/ ClosePopup
  \/ SaveChanges({Form(Income, CatDigits, AmtPadded, Empty),
                  Form(Keep, Keep, AmtWord, Keep)})
  \/ DeleteEntry

SpecTable == Init /\ [][NextTable]_vars

\* The Statistics tab: incomes and expenses of two months and categories,
\* imported rows, deletions, reloads, and the month chooser.
NextDashboard ==
  \/ AddEntry({DayFeb, DayMar},
              {Form(Expense, CatFood, AmtPadded, NoteLunch),
               Form(Expense, CatBills, AmtPlain, Empty),
               Form(Income, CatBills, AmtPadded, Empty)})
  \/ SelectMonth({AllMonths, "February", "March"})
  \/ ImportCsv({FileOdd, FileRefund})
  \/ Select
  \/ DeleteEntry
  \/ Restart

SpecDashboard == Init /\ [][NextDashboard]_vars

\* The table's views of a ledger of incomes and expenses of two days.
NextView ==
  \/ AddEntry({DayFeb, DayMar},
              {Form(Expense, CatFood, AmtPeso, NoteLunch),
               Form(Income, CatBills, AmtPlain, Empty)})
  \/ FilterSort({Empty, SearchFood, SearchDot}, {"Ascending", "Descending"})
  \/ Select
  \/ DeleteEntry

SpecView == Init /\ [][NextView]_vars

\* Files: exports, and imports of the sample files and of the exported file.
NextFiles ==
  \/ AddEntry({DayFeb}, {Form(Expense, CatFood, AmtPeso, NoteLunch)})
  \/ ExportCsv
  \/ ImportCsv({FileMixed, FileOdd, FileNoNotes, FileBadAmount, FileNoTypes,
                Unparseable})
  \/ Restart

SpecFiles == Init /\ [][NextFiles]_vars

(***************************************************************************)
(* Claims checked under Spec and SpecTable                                 *)
(***************************************************************************)
CategoryValid(c) == c # NaNText /\ c # <<>> /\ ~StrIsDigit(c)

\* C1: every transaction in the ledger has amount > 0, type Income or
\* Expense, and a category that is non-empty and not made only of digits.
\* (Stated as the claim states it; the code does not keep it.)
C1_LedgerRowsValid ==
  \A k \in 1..Len(df) :
    /\ FloatGtZero(df[k].Amount)
    /\ df[k].Type \in {Income, Expense}
    /\ CategoryValid(df[k].Category)

\* A category made only of digits, or holding a character other than a
\* letter, a digit, a space or a hyphen
CategoryUnacceptable(c) ==
  \/ StrIsDigit(c)
  \/ \E i \in 1..Len(c) :
       ~(IsLetter(c[i]) \/ IsDigitChar(c[i]) \/ c[i] = " " \/ c[i] = "-")

\* C3: an add or an edit that submits a category made only of digits or
\* holding a character outside letters, digits, space and hyphen is
\* rejected and leaves the ledger unchanged.  (Stated as the claim states
\* it; the edit path does not keep it.)
C3_BadCategoryRejected ==
  (last.op \in {"add", "save"} /\ CategoryUnacceptable(last.category))
    => (last.outcome # "ok" /\ df = pre.df)

\* C5: in every state between user actions the persisted file holds the
\* ledger, so that reloading it gives the same rows in the same order, and
\* an operation that was rejected or cancelled has not written the file.
\* (Stated as the claim states it; the reload does not give back an empty
\* text.)
C5_FileEqualsLedger ==
  /\ file = ToCsv(df)
  /\ LoadCsv(file) = df
  /\ (last.outcome # "ok" => file = pre.file)

\* C6: a successful edit changes only the type, category, amount and notes
\* of the ledger row that the selected table row displays; that row's date,
\* the number of rows and every other row are unchanged.
C6_EditChangesOnlySelectedRow ==
  (last.op = "save" /\ last.outcome = "ok") =>
    /\ Len(df) = Len(pre.df)
    /\ \E k \in 1..Len(pre.df) :
         /\ RowValues(pre.df[k]) = last.shown
         /\ df[k].Date = pre.df[k].Date
         /\ \A j \in 1..Len(pre.df) : j # k => df[j] = pre.df[j]

\* C6 witness: an edit saved from a filtered view in which the selected
\* item's place in the table differs from its row's place in the ledger,
\* and which changed the ledger.
C6_Witness ==
  /\ last.op = "save" /\ last.outcome = "ok"
  /\ last.visible < Len(pre.df)
  /\ last.pos # last.item[1] + 1
  /\ df # pre.df

DenotesNumber(raw) ==
  LET t == CleanAmount(raw)
      body == IF t # <<>> /\ Head(t) \in {"+", "-"} THEN Tail(t) ELSE t
  IN  IsDecimal(body)

\* C2: on the add path and on the edit path an amount that is not a number
\* or is <= 0 is rejected, and the ledger and the file are as they were.
\* (Stated as the claim states it; "nan" is let through.)
C2_BadAmountRejected ==
  (/\ last.op \in {"add", "save"}
   /\ \/ ~DenotesNumber(last.amount)
      \/ FloatLeqZero(ParseFloat(CleanAmount(last.amount)).f))
    => (last.outcome # "ok" /\ df = pre.df /\ file = pre.file)

\* C4: after a successful add, reloading the ledger from the file gives the
\* previous ledger with one row appended: the day of the add, and the
\* trimmed type, category and notes and the cleaned amount of the form.
\* (Stated as the claim states it; empty notes are not read back.)
C4_AddThenReload ==
  (last.op = "add" /\ last.outcome = "ok") =>
    LoadCsv(file) =
      Append(pre.df,
             Row(last.now, Strip(last.type), Strip(last.category),
                 ParseFloat(CleanAmount(last.amount)).f, Strip(last.notes)))

(***************************************************************************)
(* Claims checked under SpecFiles                                          *)
(***************************************************************************)
\* The place in the header of the column named col, whatever the case and
\* the padding of the header (0 when there is none)
ColumnOf(f, col) ==
  IF \E i \in 1..Len(f.header) : StrLower(Strip(f.header[i])) = StrLower(col)
  THEN CHOOSE i \in 1..Len(f.header) :
         StrLower(Strip(f.header[i])) = StrLower(col)
  ELSE 0

\* The file cannot be parsed, lacks a required column, or has an amount
\* that is not a number.
ImportMustFail(f) ==
  \/ f.bad
  \/ \E i \in 1..Len(COLUMNS) : ColumnOf(f, COLUMNS[i]) = 0
  \/ \E r \in 1..Len(f.rows) :
       LET c == f.rows[r][ColumnOf(f, ColAmount)] IN
       c \notin NaValues /\ ~DenotesNumber(c)

\* C8: an import that fails (unparseable file, missing required column,
\* amount that cannot be converted) adds no row: the ledger and the file
\* are as they were before it.
C8_FailedImportChangesNothing ==
  (last.op = "import" /\ last.outcome # "cancelled") =>
    /\ ImportMustFail(last.src[1]) => last.outcome # "ok"
    /\ last.outcome # "ok" => (df = pre.df /\ file = pre.file)

\* C8 witness: the import of a file whose second row has a bad amount, into
\* a ledger that has rows, has failed.
C8_Witness ==
  /\ last.op = "import" /\ last.outcome = "exception"
  /\ last.src = <<FileBadAmount>>
  /\ Len(pre.df) > 0

\* The lines of the first n lines of the file, in file order, whose type is
\* Income or Expense in any case and whose date is parseable
RECURSIVE AcceptedLines(_, _)
AcceptedLines(f, n) ==
  IF n = 0 THEN <<>>
  ELSE IF /\ f.rows[n][ColumnOf(f, ColType)] \notin NaValues
          /\ StrLower(f.rows[n][ColumnOf(f, ColType)])
               \in {StrLower(Income), StrLower(Expense)}
          /\ ~ParseDate(f.rows[n][ColumnOf(f, ColDate)]).nat
  THEN Append(AcceptedLines(f, n - 1), n)
  ELSE AcceptedLines(f, n - 1)

\* Ledger row `row` is line r of the file: the same day, the type in
\* another case at most, the same category, amount and notes
RowIsLine(row, f, r) ==
  /\ ParseDate(row.Date) = ParseDate(f.rows[r][ColumnOf(f, ColDate)])
  /\ StrLower(row.Type) = StrLower(f.rows[r][ColumnOf(f, ColType)])
  /\ row.Type \in {Income, Expense}
  /\ row.Category = ReadTextCell(f.rows[r][ColumnOf(f, ColCategory)])
  /\ row.Amount = ImportAmount(f.rows[r][ColumnOf(f, ColAmount)])
  /\ row.Notes = ReadTextCell(f.rows[r][ColumnOf(f, ColNotes)])

C10_RoundTrip ==
  (/\ last.op = "import" /\ last.outcome = "ok"
   /\ last.src = exported
   /\ exported = <<ToCsv(pre.df)>>)
    => df = pre.df

(***************************************************************************)
(* Claims checked under SpecDashboard                                      *)
(***************************************************************************)
\* The sum of the totals of a set of chart wedges
RECURSIVE SumWedges(_)
SumWedges(W) ==
  IF W = {} THEN 0
  ELSE LET w == CHOOSE x \in W : TRUE IN w.total + SumWedges(W \ {w})

\* C11: for the ledger and the month selection on show, the sum of the
\* per-category expense totals of the pie chart equals the Spent figure.
\* (Stated as the claim states it; see C1 for the rows that break it.)
C11_PieSumsToSpent ==
  SumWedges(dashboard.wedges) = dashboard.spent

\* The selected transactions of one type, and the total of their amounts
SelectedTotal(type) ==
  SumAmounts(df, {k \in MonthRows(df, month_var) : df[k].Type = type})

\* C12: the percentage used is 100 x total expenses / total income of the
\* selected transactions (shown to one decimal) when total income > 0, the
\* "no income data" text is shown in every other case, and the remaining
\* balance is total income minus total expenses.
\* (Stated as the claim states it; see C1 for the rows that break it.)
C12_PercentageUsed ==
  LET total_income == SelectedTotal(Income)
      total_expenses == SelectedTotal(Expense)
  IN  /\ dashboard.remaining = total_income - total_expenses
      /\ IF total_income > 0
         THEN /\ dashboard.percent_label # "noincome"
              /\ dashboard.pct_num * total_income
                   = 100 * total_expenses * dashboard.pct_den
              /\ LET diff == dashboard.percent_tenths * total_income
                               - 1000 * total_expenses
                 IN  2 * diff <= total_income /\ 2 * diff >= 0 - total_income
         ELSE dashboard.percent_label = "noincome"

(***************************************************************************)
(* Claims checked under SpecView                                           *)
(***************************************************************************)
\* The ledger row at position k has the search text in its type, category
\* or notes, whatever the case of the letters
RowHasText(k, text) ==
  \E v \in {df[k].Type, df[k].Category, df[k].Notes} :
     v # NaNText /\ Contains(StrLower(v), StrLower(text))

\* The calendar day the table shows in item k
ShownDay(k) == ParseDate(treeview[k].values[1])

\* C13: after filter_sort the table shows exactly the ledger rows that have
\* the search text in type, category or notes, case-insensitively (all rows
\* for an empty search text), each once, and in date order: with Ascending
\* each row's calendar day is on or before the next row's, with Descending
\* on or after it.
\* (Stated as the claim states it; the dates are ordered as texts.)
C13_FilterSortShowsMatchesInDateOrder ==
  (last.op = "filter" /\ last.outcome = "ok") =>
    LET text == Strip(last.search)
        matches == {k \in 1..Len(df) : text = <<>> \/ RowHasText(k, text)}
    IN  /\ Len(treeview) = Cardinality(matches)
        /\ {treeview[k].iid : k \in 1..Len(treeview)}
             = {index[k] : k \in matches}
        /\ \A k \in 1..Len(treeview) :
             treeview[k].values = RowValues(df[PosOf(index, treeview[k].iid)])
        /\ \A k \in 1..(Len(treeview) - 1) :
             IF last.sort = "Ascending"
             THEN OnOrBefore(ShownDay(k), ShownDay(k + 1))
             ELSE OnOrBefore(ShownDay(k + 1), ShownDay(k))

====
